---- MODULE Spec2Model ----
(***************************************************************************)
(* Model of the run bootstrap of sae (src/sae/__main__.py, run()).         *)
(*                                                                         *)
(* One launch starts world_size OS processes, each executing run() on its  *)
(* own main thread.  A process is modelled as a program counter walking    *)
(* through the statements of run(); the only state shared between          *)
(* processes is the rendezvous of dist.init_process_group.                 *)
(***************************************************************************)
EXTENDS Integers, Sequences, FiniteSets, TLC

(* ------------------------------ bounds -------------------------------- *)

\* Largest number of processes of one launch.
MaxProcs == 2
\* Largest number of tokens in the raw dataset.
MaxTokens == 2
\* Largest dataset size and shard count of the pure sharding runs.
MaxShardData == 10
MaxWorld == 4

(* ------------------------------ values -------------------------------- *)

\* An optional str: Python's None, or a str given as its characters.
None == [present |-> FALSE, value |-> <<>>]

Some(s) == [present |-> TRUE, value |-> s]

Min(a, b) == IF a < b THEN a ELSE b

\* <<a, a+1, ..., b>>
Interval(a, b) == [i \in 1..(b - a + 1) |-> a + i - 1]

(* ------------------------- str <-> int (Python) ----------------------- *)

Digits == <<"0", "1", "2", "3", "4", "5", "6", "7", "8", "9">>

IsDigit(c) == \E d \in 1..10 : Digits[d] = c

DigitValue(c) == (CHOOSE d \in 1..10 : Digits[d] = c) - 1

RECURSIVE DigitsValue(_)
\* The number a non-empty sequence of decimal digits denotes.
DigitsValue(s) ==
    IF Len(s) = 0 THEN 0
    ELSE 10 * DigitsValue(SubSeq(s, 1, Len(s) - 1)) + DigitValue(s[Len(s)])

AllDigits(s) == Len(s) > 0 /\ \A i \in 1..Len(s) : IsDigit(s[i])

\* A lenient conversion in the manner of C's atoi: text that is no number
\* converts to 0 instead of raising.
atoi(s) ==
    IF Len(s) > 0 /\ s[1] \in {"-", "+"} /\ AllDigits(Tail(s))
    THEN [ok |-> TRUE,
          val |-> IF s[1] = "-" THEN 0 - DigitsValue(Tail(s))
                                ELSE DigitsValue(Tail(s))]
    ELSE IF AllDigits(s)
         THEN [ok |-> TRUE, val |-> DigitsValue(s)]
         ELSE [ok |-> TRUE, val |-> 0]

\* int(s) of a str s, given as its sequence of characters: an optional sign
\* followed by at least one decimal digit; anything else raises ValueError.
int(s) ==
    IF Len(s) > 0 /\ s[1] \in {"-", "+"}
    THEN IF AllDigits(Tail(s))
         THEN [ok |-> TRUE,
               val |-> IF s[1] = "-" THEN 0 - DigitsValue(Tail(s))
                                     ELSE DigitsValue(Tail(s))]
         ELSE [ok |-> FALSE, val |-> 0]
    ELSE IF AllDigits(s)
         THEN [ok |-> TRUE, val |-> DigitsValue(s)]
         ELSE [ok |-> FALSE, val |-> 0]

RECURSIVE str(_)
\* str(n) of a natural number n, as its sequence of characters.
str(n) ==
    IF n < 10 THEN <<Digits[n + 1]>>
    ELSE Append(str(n \div 10), Digits[(n % 10) + 1])

(* ------------------------------ sharding ------------------------------ *)

\* Dataset.shard(num_shards, index, contiguous=True): rows
\* [start, end) with start = div*index + min(index, mod).
ShardContiguous(ds, num_shards, index) ==
    LET div   == Len(ds) \div num_shards
        mod   == Len(ds) % num_shards
        start == div * index + Min(index, mod)
        end   == start + div + (IF index < mod THEN 1 ELSE 0)
    IN  SubSeq(ds, start + 1, end)

\* Dataset.shard(num_shards, index, contiguous=False): rows
\* index, index + num_shards, index + 2*num_shards, ...
ShardStrided(ds, num_shards, index) ==
    LET n == IF Len(ds) > index
             THEN ((Len(ds) - index - 1) \div num_shards) + 1
             ELSE 0
    IN  [k \in 1..n |-> ds[index + (k - 1) * num_shards + 1]]

\* tokenized.shard(dist.get_world_size(), rank); the library rejects an
\* index outside [0, num_shards - 1] with ValueError.
ShardIndexOk(num_shards, index) == 0 <= index /\ index < num_shards

\* Shard with the rows beyond a whole multiple of num_shards left out:
\* every shard gets len // num_shards rows.
ShardDropRemainder(ds, num_shards, index, contig) ==
    LET div == Len(ds) \div num_shards
    IN  IF contig
        THEN SubSeq(ds, div * index + 1, div * index + div)
        ELSE [k \in 1..div |-> ds[index + (k - 1) * num_shards + 1]]

\* A split into runs of len // num_shards rows in which the last shard
\* takes the rows that remain.
ShardRemainderToLast(ds, num_shards, index, contig) ==
    LET div == Len(ds) \div num_shards
    IN  SubSeq(ds, div * index + 1,
               IF index = num_shards - 1 THEN Len(ds) ELSE div * index + div)

Shard(ds, num_shards, index, contig) ==
    IF contig THEN ShardContiguous(ds, num_shards, index)
              ELSE ShardStrided(ds, num_shards, index)

(* ------------------------- precision selection ------------------------ *)

\* The selection with its first two branches in the other order: bf16
\* support is asked before the quantization flag.
SelectDtypeBf16First(load_in_8bit, bf16) ==
    IF bf16 THEN "bfloat16"
    ELSE IF load_in_8bit THEN "float16"
    ELSE "auto"

\* The if / elif / else over (args.load_in_8bit, is_bf16_supported()).
SelectDtype(load_in_8bit, bf16) ==
    IF load_in_8bit THEN "float16"
    ELSE IF bf16 THEN "bfloat16"
    ELSE "auto"

\* model.dtype of the loaded model: the requested torch_dtype, or the
\* checkpoint's own dtype when "auto" was requested.
ModelDtype(torch_dtype) ==
    IF torch_dtype = "auto" THEN "checkpoint" ELSE torch_dtype

(* --------------------------- tokenization ----------------------------- *)

\* chunk_and_tokenize(dataset, tokenizer, max_seq_len): the token stream of
\* the dataset cut into chunks of max_seq_len tokens, the incomplete last
\* chunk dropped.  The chunks are numbered 1..n in dataset order.
chunk_and_tokenize(ntokens, max_seq_len) ==
    Interval(1, ntokens \div max_seq_len)

(* ------------------------------ the state ----------------------------- *)

VARIABLES
    \* the launch: what every process of it is started with
    world_size,      \* number of processes of the group (dist.get_world_size())
    environ,         \* environ[p]: os.environ.get("LOCAL_RANK") of process p
    argv,            \* the command line parse(RunConfig) reads
    bf16_supported,  \* torch.cuda.is_bf16_supported() on the launch's hardware
    init_barrier,    \* whether the library's join waits for every peer
    contiguous,      \* the default of Dataset.shard's contiguous parameter
    ntokens,         \* number of tokens of the raw dataset
    \* the rendezvous of dist.init_process_group
    arrived,         \* processes that have called init_process_group
    \* proc[p]: the locals of run() in process p and what it has done
    proc,
    \* a pure sharding run: one dataset sharded rank by rank
    shard_run

launch == <<world_size, environ, argv, bf16_supported, init_barrier,
            contiguous, ntokens>>

vars == <<launch, arrived, proc, shard_run>>

Procs == 1..world_size

(* ------------------------------ the inputs ---------------------------- *)

\* ctx_len's default (RunConfig.ctx_len).
DefaultCtxLen == 2048

\* LOCAL_RANK values that are no launcher's: not a number, and negative.
BadRanks == {Some(<<"a", "b", "c">>), Some(<<"-", "1">>)}

\* The --ctx_len argument: absent, or its text.
CtxLenArgs == {None, Some(<<"1">>), Some(<<"0">>), Some(<<"-", "1">>),
               Some(<<"x">>)}

Argvs == [ctx_len : CtxLenArgs, load_in_8bit : BOOLEAN]

\* The LOCAL_RANK a launcher gives process p with nper processes per node.
LauncherRank(p, nper) == Some(str((p - 1) % nper))

\* The environments of a launch of w processes: one process without
\* LOCAL_RANK, or w processes spread over nodes of nper processes each,
\* where any process may instead carry a malformed LOCAL_RANK.
Environs(w) ==
    (IF w = 1 THEN {[p \in 1..1 |-> None]} ELSE {})
    \cup UNION {
        {e \in [1..w -> {LauncherRank(p, nper) : p \in 1..w} \cup BadRanks] :
            \A p \in 1..w : e[p] \in {LauncherRank(p, nper)} \cup BadRanks}
        : nper \in {n \in 1..w : w % n = 0}}

NoArgs == [parsed |-> FALSE, ctx_len |-> 0, load_in_8bit |-> FALSE]

NoDevice == [bound |-> FALSE, index |-> 0]

NoModel == [loaded |-> FALSE, device |-> 0, dtype |-> "none"]

NoTrainer == [built |-> FALSE, cfg |-> NoArgs, dataset |-> <<>>,
              model |-> NoModel]

NoErr == [kind |-> "none", at |-> "none"]

NoShardRun == [active |-> FALSE, n |-> 0, w |-> 0, contig |-> FALSE,
               shards |-> <<>>]

\* A process at the first statement of run().
Started ==
    [pc         |-> "detect",
     local_rank |-> None,       \* os.environ.get("LOCAL_RANK")
     ddp        |-> FALSE,
     rank       |-> 0,
     set_device |-> FALSE,      \* torch.cuda.set_device was called
     device     |-> NoDevice,   \* the current CUDA device, once bound
     joined     |-> FALSE,      \* init_process_group has returned
     args       |-> NoArgs,
     dtype      |-> "none",
     model      |-> NoModel,
     dataset    |-> FALSE,      \* load_dataset has returned
     tokenizer  |-> FALSE,      \* AutoTokenizer.from_pretrained has returned
     chunked    |-> FALSE,      \* chunk_and_tokenize has returned
     tokenized  |-> <<>>,
     stdout     |-> "console",  \* sys.stdout: the console, or None
     console    |-> <<>>,       \* what has reached the console, in order
     discarded  |-> <<>>,       \* what was printed while sys.stdout was None
     trainer    |-> NoTrainer,
     fit_calls  |-> 0,          \* how often trainer.fit() was invoked
     ws_calls   |-> 0,          \* how often dist.get_world_size() was invoked
     pending    |-> NoErr,      \* the exception unwinding the with block
     err        |-> NoErr]      \* the exception that left run()

Init ==
    /\ world_size \in 1..MaxProcs
    /\ environ \in Environs(world_size)
    /\ argv \in Argvs
    /\ bf16_supported \in BOOLEAN
    /\ init_barrier \in BOOLEAN
    /\ contiguous \in BOOLEAN
    /\ ntokens \in 0..MaxTokens
    /\ arrived = {}
    /\ proc = [p \in Procs |-> Started]
    /\ shard_run = NoShardRun

(* ------------------------------ the steps ----------------------------- *)

\* An exception leaves run(): the process terminates.
Raised(s, kind, at) ==
    [s EXCEPT !.pc = "failed", !.err = [kind |-> kind, at |-> at]]

\* A line of output: which print produced it and the values it formats.
Line(kind, n, text) == [line |-> kind, n |-> n, text |-> text]

\* print(line): written to sys.stdout, and dropped when sys.stdout is None.
Printed(s, line) ==
    IF s.stdout = "console"
    THEN [s EXCEPT !.console = Append(@, line)]
    ELSE [s EXCEPT !.discarded = Append(@, line)]

\* Topology detection with 1 as the rank of a process without LOCAL_RANK.
DetectTopologyDefaultOne(p) ==
    /\ proc[p].pc = "detect"
    /\ LET s == [proc[p] EXCEPT !.local_rank = environ[p],
                                !.ddp = environ[p].present]
       IN  proc' = [proc EXCEPT ![p] =
             IF ~s.ddp
             THEN [s EXCEPT !.rank = 1, !.pc = "parse"]
             ELSE IF int(s.local_rank.value).ok
             THEN [s EXCEPT !.rank = int(s.local_rank.value).val,
                            !.pc = "set_device"]
             ELSE Raised(s, "ValueError", "detect")]
    /\ UNCHANGED <<launch, arrived, shard_run>>

\* local_rank = os.environ.get("LOCAL_RANK"); ddp = local_rank is not None;
\* rank = int(local_rank) if ddp else 0
DetectTopology(p) ==
    /\ proc[p].pc = "detect"
    /\ LET s == [proc[p] EXCEPT !.local_rank = environ[p],
                                !.ddp = environ[p].present]
       IN  proc' = [proc EXCEPT ![p] =
             IF ~s.ddp
             THEN [s EXCEPT !.rank = 0, !.pc = "parse"]
             ELSE IF int(s.local_rank.value).ok
             THEN [s EXCEPT !.rank = int(s.local_rank.value).val,
                            !.pc = "set_device"]
             ELSE Raised(s, "ValueError", "detect")]
    /\ UNCHANGED <<launch, arrived, shard_run>>

\* The device is bound and the join is left out: the next statement is the
\* announcement.
SetDeviceWithoutJoin(p) ==
    /\ proc[p].pc = "set_device"
    /\ LET d == int(proc[p].local_rank.value).val
       IN  proc' = [proc EXCEPT ![p] =
             [@ EXCEPT !.set_device = TRUE,
                       !.device = IF d >= 0
                                  THEN [bound |-> TRUE, index |-> d]
                                  ELSE @,
                       !.pc = "announce"]]
    /\ UNCHANGED <<launch, arrived, shard_run>>

\* torch.cuda.set_device(int(local_rank)): a no-op for a negative index.
SetDevice(p) ==
    /\ proc[p].pc = "set_device"
    /\ LET d == int(proc[p].local_rank.value).val
       IN  proc' = [proc EXCEPT ![p] =
             [@ EXCEPT !.set_device = TRUE,
                       !.device = IF d >= 0
                                  THEN [bound |-> TRUE, index |-> d]
                                  ELSE @,
                       !.pc = "init_process_group"]]
    /\ UNCHANGED <<launch, arrived, shard_run>>

\* dist.init_process_group("nccl") is entered: the process reports to the
\* rendezvous.
JoinCall(p) ==
    /\ proc[p].pc = "init_process_group"
    /\ arrived' = arrived \cup {p}
    /\ proc' = [proc EXCEPT ![p] = [@ EXCEPT !.pc = "joining"]]
    /\ UNCHANGED <<launch, shard_run>>

\* dist.init_process_group("nccl") returns; with the library's barrier, only
\* once every process of the group has reported.
JoinReturn(p) ==
    /\ proc[p].pc = "joining"
    /\ init_barrier => arrived = Procs
    /\ proc' = [proc EXCEPT ![p] = [@ EXCEPT !.joined = TRUE,
                                             !.pc = "announce"]]
    /\ UNCHANGED <<launch, arrived, shard_run>>

\* The failure of the join is caught and the process goes on without a
\* process group.
JoinTimeoutCaught(p) ==
    /\ proc[p].pc = "joining"
    /\ init_barrier
    /\ arrived # Procs
    /\ proc' = [proc EXCEPT ![p] = [@ EXCEPT !.pc = "parse"]]
    /\ UNCHANGED <<launch, arrived, shard_run>>

\* dist.init_process_group("nccl") gives up waiting for its peers and
\* raises; run() does not catch it.
JoinTimeout(p) ==
    /\ proc[p].pc = "joining"
    /\ init_barrier
    /\ arrived # Procs
    /\ proc' = [proc EXCEPT ![p] = Raised(@, "DistStoreError",
                                           "init_process_group")]
    /\ UNCHANGED <<launch, arrived, shard_run>>

\* dist.get_world_size(): needs the default process group.
GetWorldSize(s) ==
    IF s.joined
    THEN [s EXCEPT !.ws_calls = @ + 1]
    ELSE Raised([s EXCEPT !.ws_calls = @ + 1], "ValueError", "get_world_size")

\* if rank == 0: print(f"Using DDP across {dist.get_world_size()} GPUs.")
Announce(p) ==
    /\ proc[p].pc = "announce"
    /\ proc' = [proc EXCEPT ![p] =
         IF @.rank = 0
         THEN LET s == GetWorldSize(@)
              IN  IF s.pc = "failed" THEN s
                  ELSE [Printed(s, Line("ddp", world_size, ""))
                           EXCEPT !.pc = "parse"]
         ELSE [@ EXCEPT !.pc = "parse"]]
    /\ UNCHANGED <<launch, arrived, shard_run>>

\* args = parse(RunConfig): every field from the command line or its
\* default; a value that is no int ends the process (SystemExit).
Parse(p) ==
    /\ proc[p].pc = "parse"
    /\ LET a == argv.ctx_len
       IN  proc' = [proc EXCEPT ![p] =
             IF a.present /\ ~int(a.value).ok
             THEN Raised(@, "SystemExit", "parse")
             ELSE [@ EXCEPT
                     !.args = [parsed       |-> TRUE,
                               ctx_len      |-> IF a.present
                                                THEN int(a.value).val
                                                ELSE DefaultCtxLen,
                               load_in_8bit |-> argv.load_in_8bit],
                     !.pc = "select_dtype"]]
    /\ UNCHANGED <<launch, arrived, shard_run>>

\* dtype = float16 | bfloat16 | "auto"
ChooseDtype(p) ==
    /\ proc[p].pc = "select_dtype"
    /\ proc' = [proc EXCEPT ![p] =
         [@ EXCEPT !.dtype = SelectDtype(proc[p].args.load_in_8bit,
                                        bf16_supported),
                   !.pc = "load_model"]]
    /\ UNCHANGED <<launch, arrived, shard_run>>

\* The model load with every rank's model placed on cuda:0.
LoadModelOnDeviceZero(p) ==
    /\ proc[p].pc = "load_model"
    /\ \E ok \in BOOLEAN :
         proc' = [proc EXCEPT ![p] =
           IF ok
           THEN [@ EXCEPT !.model = [loaded |-> TRUE,
                                     device |-> 0,
                                     dtype  |-> ModelDtype(proc[p].dtype)],
                          !.pc = "load_dataset"]
           ELSE Raised(@, "OSError", "load_model")]
    /\ UNCHANGED <<launch, arrived, shard_run>>

\* model = AutoModelForCausalLM.from_pretrained(args.model,
\*     device_map={"": f"cuda:{rank}"}, torch_dtype=dtype, ...)
\* returns the model, or raises when the model cannot be obtained.
LoadModel(p) ==
    /\ proc[p].pc = "load_model"
    /\ \E ok \in BOOLEAN :
         proc' = [proc EXCEPT ![p] =
           IF ok
           THEN [@ EXCEPT !.model = [loaded |-> TRUE,
                                     device |-> proc[p].rank,
                                     dtype  |-> ModelDtype(proc[p].dtype)],
                          !.pc = "load_dataset"]
           ELSE Raised(@, "OSError", "load_model")]
    /\ UNCHANGED <<launch, arrived, shard_run>>

\* dataset = load_dataset(args.dataset, split=args.split, ...)
LoadDataset(p) ==
    /\ proc[p].pc = "load_dataset"
    /\ \E ok \in BOOLEAN :
         proc' = [proc EXCEPT ![p] =
           IF ok
           THEN [@ EXCEPT !.dataset = TRUE, !.pc = "load_tokenizer"]
           ELSE Raised(@, "OSError", "load_dataset")]
    /\ UNCHANGED <<launch, arrived, shard_run>>

\* tokenizer = AutoTokenizer.from_pretrained(args.model)
LoadTokenizer(p) ==
    /\ proc[p].pc = "load_tokenizer"
    /\ \E ok \in BOOLEAN :
         proc' = [proc EXCEPT ![p] =
           IF ok
           THEN [@ EXCEPT !.tokenizer = TRUE, !.pc = "tokenize"]
           ELSE Raised(@, "OSError", "load_tokenizer")]
    /\ UNCHANGED <<launch, arrived, shard_run>>

\* Tokenization followed by the sharding without the test of ddp.
TokenizeAlwaysShard(p) ==
    /\ proc[p].pc = "tokenize"
    /\ \E ok \in BOOLEAN :
         /\ proc[p].args.ctx_len > 0 => ok
         /\ proc' = [proc EXCEPT ![p] =
              IF ok
              THEN [@ EXCEPT !.chunked = TRUE,
                             !.tokenized =
                                IF proc[p].args.ctx_len > 0
                                THEN chunk_and_tokenize(ntokens,
                                                        proc[p].args.ctx_len)
                                ELSE <<>>,
                             !.pc = "shard"]
              ELSE Raised(@, "ValueError", "tokenize")]
    /\ UNCHANGED <<launch, arrived, shard_run>>

\* tokenized = chunk_and_tokenize(dataset, tokenizer, max_seq_len=args.ctx_len)
\* and the test of ddp that follows it.  What the collaborator does with
\* a max_seq_len that is not positive is not known: it raises, or it
\* returns no chunk.
Tokenize(p) ==
    /\ proc[p].pc = "tokenize"
    /\ \E ok \in BOOLEAN :
         /\ proc[p].args.ctx_len > 0 => ok
         /\ proc' = [proc EXCEPT ![p] =
              IF ok
              THEN [@ EXCEPT !.chunked = TRUE,
                             !.tokenized =
                                IF proc[p].args.ctx_len > 0
                                THEN chunk_and_tokenize(ntokens,
                                                        proc[p].args.ctx_len)
                                ELSE <<>>,
                             !.pc = IF proc[p].ddp THEN "shard"
                                                   ELSE "enter_gate"]
              ELSE Raised(@, "ValueError", "tokenize")]
    /\ UNCHANGED <<launch, arrived, shard_run>>

\* tokenized = tokenized.shard(dist.get_world_size(), rank)
ShardTokenized(p) ==
    /\ proc[p].pc = "shard"
    /\ proc' = [proc EXCEPT ![p] =
         LET s == GetWorldSize(@)
         IN  IF s.pc = "failed" THEN s
             ELSE IF ~ShardIndexOk(world_size, s.rank)
             THEN Raised(s, "ValueError", "shard")
             ELSE [s EXCEPT !.tokenized = Shard(@, world_size, s.rank,
                                                contiguous),
                            !.pc = "enter_gate"]]
    /\ UNCHANGED <<launch, arrived, shard_run>>

\* The with statement with nullcontext() on every rank.
EnterGateNullContext(p) ==
    /\ proc[p].pc = "enter_gate"
    /\ proc' = [proc EXCEPT ![p] = [@ EXCEPT !.pc = "print_dataset"]]
    /\ UNCHANGED <<launch, arrived, shard_run>>

\* with nullcontext() if rank == 0 else redirect_stdout(None): on entry
\* redirect_stdout sets sys.stdout to None.
EnterGate(p) ==
    /\ proc[p].pc = "enter_gate"
    /\ proc' = [proc EXCEPT ![p] =
         [@ EXCEPT !.stdout = IF proc[p].rank = 0 THEN @ ELSE "none",
                   !.pc = "print_dataset"]]
    /\ UNCHANGED <<launch, arrived, shard_run>>

\* An exception inside the with block: it unwinds through the exit of the
\* context manager.
RaisedInGate(s, kind, at) ==
    [s EXCEPT !.pending = [kind |-> kind, at |-> at], !.pc = "exit_gate"]

\* print(f"Training on '{args.dataset}' (split '{args.split}')")
\* Writing to the console may fail; with sys.stdout None nothing is written.
PrintDataset(p) ==
    /\ proc[p].pc = "print_dataset"
    /\ \E ok \in BOOLEAN :
         /\ proc[p].stdout # "console" => ok
         /\ proc' = [proc EXCEPT ![p] =
              IF ok
              THEN [Printed(@, Line("dataset", 0, ""))
                      EXCEPT !.pc = "print_dtype"]
              ELSE RaisedInGate(@, "OSError", "print")]
    /\ UNCHANGED <<launch, arrived, shard_run>>

\* print(f"Storing model weights in {model.dtype}")
PrintDtype(p) ==
    /\ proc[p].pc = "print_dtype"
    /\ \E ok \in BOOLEAN :
         /\ proc[p].stdout # "console" => ok
         /\ proc' = [proc EXCEPT ![p] =
              IF ok
              THEN [Printed(@, Line("dtype", 0, @.model.dtype))
                      EXCEPT !.pc = "make_trainer"]
              ELSE RaisedInGate(@, "OSError", "print")]
    /\ UNCHANGED <<launch, arrived, shard_run>>

\* trainer = SaeTrainer(args, tokenized, model)
MakeTrainer(p) ==
    /\ proc[p].pc = "make_trainer"
    /\ \E ok \in BOOLEAN :
         proc' = [proc EXCEPT ![p] =
           IF ok
           THEN [@ EXCEPT !.trainer = [built   |-> TRUE,
                                       cfg     |-> proc[p].args,
                                       dataset |-> proc[p].tokenized,
                                       model   |-> proc[p].model],
                          !.pc = "fit"]
           ELSE RaisedInGate(@, "RuntimeError", "make_trainer")]
    /\ UNCHANGED <<launch, arrived, shard_run>>

\* trainer.fit() is invoked only once every process of the launch has come
\* to the handoff: a second barrier before fit().
FitCallAfterBarrier(p) ==
    /\ proc[p].pc = "fit"
    /\ \A q \in Procs : proc[q].pc \in {"fit", "in_fit", "exit_gate", "done"}
    /\ proc' = [proc EXCEPT ![p] = [@ EXCEPT !.fit_calls = @ + 1,
                                             !.pc = "in_fit"]]
    /\ UNCHANGED <<launch, arrived, shard_run>>

\* trainer.fit() is invoked.
FitCall(p) ==
    /\ proc[p].pc = "fit"
    /\ proc' = [proc EXCEPT ![p] = [@ EXCEPT !.fit_calls = @ + 1,
                                             !.pc = "in_fit"]]
    /\ UNCHANGED <<launch, arrived, shard_run>>

\* trainer.fit() returns and is invoked again.
FitReturnAndRepeat(p) ==
    /\ proc[p].pc = "in_fit"
    /\ proc' = [proc EXCEPT ![p] =
         [Printed(@, Line("fit", 0, "")) EXCEPT !.pc = "fit"]]
    /\ UNCHANGED <<launch, arrived, shard_run>>

\* trainer.fit() returns, having printed its progress.
FitReturn(p) ==
    /\ proc[p].pc = "in_fit"
    /\ proc' = [proc EXCEPT ![p] =
         [Printed(@, Line("fit", 0, "")) EXCEPT !.pc = "exit_gate"]]
    /\ UNCHANGED <<launch, arrived, shard_run>>

\* trainer.fit() raises.
FitRaise(p) ==
    /\ proc[p].pc = "in_fit"
    /\ proc' = [proc EXCEPT ![p] = RaisedInGate(@, "RuntimeError", "fit")]
    /\ UNCHANGED <<launch, arrived, shard_run>>

\* The exit of a context manager that suppresses the exception, in the
\* manner of contextlib.suppress.
ExitGateSuppress(p) ==
    /\ proc[p].pc = "exit_gate"
    /\ proc' = [proc EXCEPT ![p] = [@ EXCEPT !.stdout = "console",
                                             !.pc = "done"]]
    /\ UNCHANGED <<launch, arrived, shard_run>>

\* The with block is left: redirect_stdout puts the old sys.stdout back,
\* and an exception that is unwinding goes on out of run().
ExitGate(p) ==
    /\ proc[p].pc = "exit_gate"
    /\ proc' = [proc EXCEPT ![p] =
         LET s == [@ EXCEPT !.stdout = "console"]
         IN  IF s.pending = NoErr
             THEN [s EXCEPT !.pc = "done"]
             ELSE Raised(s, s.pending.kind, s.pending.at)]
    /\ UNCHANGED <<launch, arrived, shard_run>>

Next ==
    \/ \E p \in Procs : DetectTopology(p)
    \/ \E p \in Procs : SetDevice(p)
    \/ \E p \in Procs : JoinCall(p)
    \/ \E p \in Procs : JoinReturn(p)
    \/ \E p \in Procs : JoinTimeout(p)
    \/ \E p \in Procs : Announce(p)
    \/ \E p \in Procs : Parse(p)
    \/ \E p \in Procs : ChooseDtype(p)
    \/ \E p \in Procs : LoadModel(p)
    \/ \E p \in Procs : LoadDataset(p)
    \/ \E p \in Procs : LoadTokenizer(p)
    \/ \E p \in Procs : Tokenize(p)
    \/ \E p \in Procs : ShardTokenized(p)
    \/ \E p \in Procs : EnterGate(p)
    \/ \E p \in Procs : PrintDataset(p)
    \/ \E p \in Procs : PrintDtype(p)
    \/ \E p \in Procs : MakeTrainer(p)
    \/ \E p \in Procs : FitCall(p)
    \/ \E p \in Procs : FitReturn(p)
    \/ \E p \in Procs : FitRaise(p)
    \/ \E p \in Procs : ExitGate(p)

Spec == Init /\ [][Next]_vars

(* ------------------------ the pure sharding runs ---------------------- *)

\* One dataset of n rows and a shard count w, no process running.
ShardInit ==
    /\ world_size = 1
    /\ environ = [p \in 1..1 |-> None]
    /\ argv = [ctx_len |-> None, load_in_8bit |-> FALSE]
    /\ bf16_supported = FALSE
    /\ init_barrier = FALSE
    /\ contiguous = FALSE
    /\ ntokens = 0
    /\ arrived = {}
    /\ proc = [p \in Procs |-> Started]
    /\ shard_run \in [active : {TRUE}, n : 0..MaxShardData, w : 1..MaxWorld,
                      contig : BOOLEAN, shards : {<<>>}]

\* tokenized.shard(w, rank) for the next rank: shards[r + 1] is the shard
\* of rank r.
ShardRank ==
    /\ shard_run.active
    /\ Len(shard_run.shards) < shard_run.w
    /\ shard_run' = [shard_run EXCEPT !.shards =
                       Append(@, Shard(Interval(1, shard_run.n), shard_run.w,
                                       Len(@), shard_run.contig))]
    /\ UNCHANGED <<launch, arrived, proc>>

ShardNext == ShardRank

SpecShard == ShardInit /\ [][ShardNext]_vars

(* ------------------------------ C1 ------------------------------------ *)

\* The positions (shard, row) at which element e occurs in the shards.
Occurrences(shards, e) ==
    {kr \in (1..Len(shards)) \X (1..MaxShardData + MaxWorld) :
        /\ kr[2] <= Len(shards[kr[1]])
        /\ shards[kr[1]][kr[2]] = e}

\* C1: for a dataset of N elements and a world size W with 1 <= W <= N, the
\* W shards of ranks 0..W-1 hold every element exactly once (they are
\* pairwise disjoint and their union is the dataset), and no two shards
\* differ in size by more than one element.
C1_ShardsPartitionDataset ==
    LET r == shard_run
    IN  (r.active /\ 1 <= r.w /\ r.w <= r.n /\ Len(r.shards) = r.w) =>
          /\ \A e \in 1..r.n : Cardinality(Occurrences(r.shards, e)) = 1
          /\ \A k \in 1..r.w : \A i \in 1..Len(r.shards[k]) :
                r.shards[k][i] \in 1..r.n
          /\ \A j, k \in 1..r.w : Len(r.shards[j]) - Len(r.shards[k]) <= 1

\* All shards of a dataset whose size is no multiple of the world size.
C1_Witness ==
    /\ shard_run.active
    /\ shard_run.n = 10 /\ shard_run.w = 4
    /\ Len(shard_run.shards) = 4
    /\ Len(shard_run.shards[1]) = 3

(* ------------------------------ C3 ------------------------------------ *)

\* The kinds of the lines of an output, in order.
Kinds(out) == [i \in 1..Len(out) |-> out[i].line]

\* Process p has left the initializer block behind without failing in it.
PastInitializer(p) ==
    /\ proc[p].pc \notin {"detect", "set_device", "init_process_group",
                          "joining"}
    /\ proc[p].err.at \notin {"detect", "init_process_group"}

\* C3: the Process Group Initializer (a call of set_device and a join that
\* has returned) runs if and only if the run is distributed, and is complete
\* before any world-size query and before the world-size announcement; a
\* non-distributed run never queries the world size.
C3_InitializerBeforeCollectives ==
    \A p \in Procs :
        LET s == proc[p]
        IN  /\ s.ws_calls > 0 => s.ddp /\ s.set_device /\ s.joined
            /\ (\E i \in 1..Len(s.console) : s.console[i].line = "ddp")
                  => s.set_device /\ s.joined
            /\ (s.set_device \/ s.joined \/ p \in arrived) => s.ddp
            /\ (s.ddp /\ PastInitializer(p)) => s.set_device /\ s.joined
            /\ ~s.ddp => s.ws_calls = 0
            /\ s.err.at # "get_world_size"

\* A distributed rank-0 process that made both world-size queries and
\* finished.
C3_Witness ==
    \E p \in Procs :
        /\ proc[p].ddp /\ proc[p].rank = 0
        /\ proc[p].ws_calls = 2
        /\ proc[p].pc = "done"

(* ------------------------------ C4 ------------------------------------ *)

\* Process p was terminated by a configuration error: LOCAL_RANK is no
\* integer, or a configuration field is malformed.
ConfigurationError(p) ==
    /\ proc[p].pc = "failed"
    /\ proc[p].err.at \in {"detect", "parse"}

NothingLoaded(p) ==
    /\ ~proc[p].model.loaded
    /\ ~proc[p].dataset
    /\ ~proc[p].tokenizer
    /\ ~proc[p].chunked

NoGroupNoDevice(p) ==
    /\ ~proc[p].set_device
    /\ ~proc[p].device.bound
    /\ ~proc[p].joined
    /\ p \notin arrived

\* C4 as stated: at every configuration error the process has bound no
\* device, joined no process group and loaded no model, tokenizer or
\* dataset, in distributed runs too.
C4_ConfigErrorBeforeAnyAcquisition ==
    \A p \in Procs :
        ConfigurationError(p) => NoGroupNoDevice(p) /\ NothingLoaded(p)

\* C4, amended: every configuration error terminates the process before a
\* model, tokenizer or dataset is loaded; an invalid rank string, and every
\* configuration error of a single-process run, also precedes the device
\* binding and the join, while in a distributed run a malformed
\* configuration field is raised after both.
C4_ConfigErrorBeforeLoading ==
    \A p \in Procs :
        ConfigurationError(p) =>
            /\ NothingLoaded(p)
            /\ (proc[p].err.at = "detect" \/ ~proc[p].ddp)
                  => NoGroupNoDevice(p)
            /\ (proc[p].err.at = "parse" /\ proc[p].ddp)
                  => proc[p].set_device /\ proc[p].joined

\* A distributed process stopped by a malformed configuration field.
C4_Witness ==
    \E p \in Procs :
        /\ ConfigurationError(p)
        /\ proc[p].err.at = "parse"
        /\ proc[p].ddp /\ proc[p].joined

(* ------------------------------ C5 ------------------------------------ *)

\* The texts of the integers a rank signal may sensibly hold.
Numerals ==
    {str(n) : n \in 0..MaxProcs} \cup {<<"-">> \o str(n) : n \in 0..MaxProcs}

\* C5: a process whose rank signal is present and is no integer fails in
\* topology detection with int()'s error, having bound no device, joined no
\* group, resolved no configuration and touched no model, tokenizer or
\* dataset; fit() is never invoked.
C5_UnparseableRankFailsFirst ==
    \A p \in Procs :
        (environ[p].present /\ environ[p].value \notin Numerals) =>
            /\ proc[p].pc \in {"detect", "failed"}
            /\ proc[p].pc = "failed" =>
                  proc[p].err = [kind |-> "ValueError", at |-> "detect"]
            /\ NoGroupNoDevice(p)
            /\ ~proc[p].args.parsed
            /\ NothingLoaded(p)
            /\ proc[p].fit_calls = 0

\* The rank signal "abc" has stopped a process.
C5_Witness ==
    \E p \in Procs :
        /\ environ[p] = Some(<<"a", "b", "c">>)
        /\ proc[p].pc = "failed"

(* ------------------------------ C6 ------------------------------------ *)

\* C6: the rank of a process is never negative: a negative rank signal is
\* rejected in topology detection, so no device binding, join or model load
\* is attempted with a negative rank.
C6_RankNeverNegative ==
    \A p \in Procs :
        /\ proc[p].rank >= 0
        /\ (environ[p].present /\ environ[p].value = <<"-", "1">>)
              => proc[p].pc \in {"detect", "failed"} /\ NoGroupNoDevice(p)

(* ------------------------------ C7 ------------------------------------ *)

\* C7: no configuration with a ctx_len that is zero or negative is exposed
\* to the run: such a value never reaches the precision selector, the model
\* loader or chunk_and_tokenize.
C7_CtxLenPositive ==
    \A p \in Procs :
        proc[p].args.parsed => proc[p].args.ctx_len > 0

(* ------------------------------ C8 ------------------------------------ *)

\* C8: the precision choice is decided by the quantization flag and the
\* hardware's bf16 support alone, first match first: flag set -> float16,
\* else bf16 supported -> bfloat16, else auto; whatever the rank, the
\* topology, ctx_len and the dataset are.
C8_PrecisionChoice ==
    \A p \in Procs :
        proc[p].dtype # "none" =>
            /\ proc[p].args.load_in_8bit => proc[p].dtype = "float16"
            /\ (~proc[p].args.load_in_8bit /\ bf16_supported)
                  => proc[p].dtype = "bfloat16"
            /\ (~proc[p].args.load_in_8bit /\ ~bf16_supported)
                  => proc[p].dtype = "auto"

\* The flag decides although the hardware supports bf16.
C8_Witness ==
    \E p \in Procs :
        /\ proc[p].dtype = "float16"
        /\ bf16_supported
        /\ proc[p].rank # 0

(* ------------------------------ C9 ------------------------------------ *)

IsPrefix(a, b) == Len(a) <= Len(b) /\ \A i \in 1..Len(a) : a[i] = b[i]

\* What rank 0 prints before fit().
Header(s) == (IF s.ddp THEN <<"ddp">> ELSE <<>>) \o <<"dataset", "dtype">>

\* C9: a process of rank 0 prints the world-size announcement (only in a
\* distributed run), then the dataset line, then the dtype line, all before
\* fit() is invoked; a process of another rank prints nothing at any time,
\* and what is printed inside its gated scope, the trainer's output
\* included, is discarded.
C9_ConsoleContract ==
    \A p \in Procs :
        LET s == proc[p]
        IN  IF s.rank = 0
            THEN /\ IsPrefix(Kinds(s.console), Header(s) \o <<"fit">>)
                 /\ s.fit_calls > 0 => Len(s.console) >= Len(Header(s))
                 /\ s.discarded = <<>>
                 /\ \A i \in 1..Len(s.console) :
                       s.console[i].line = "ddp"
                          => s.console[i].n = world_size
            ELSE /\ s.console = <<>>
                 /\ IsPrefix(Kinds(s.discarded), <<"dataset", "dtype", "fit">>)
                 /\ s.fit_calls > 0 => Len(s.discarded) >= 2
                 /\ s.pc = "done" => Len(s.discarded) = 3

\* A distributed launch in which rank 0 and another rank have both finished.
C9_Witness ==
    \E p, q \in Procs :
        /\ proc[p].ddp /\ proc[p].rank = 0 /\ proc[p].pc = "done"
        /\ Len(proc[p].console) = 4
        /\ proc[q].rank # 0 /\ proc[q].pc = "done"
        /\ Len(proc[q].discarded) = 3

(* ------------------------------ C10 ----------------------------------- *)

\* The chunks chunk_and_tokenize returned to process p.
Chunks(p) ==
    IF proc[p].args.ctx_len > 0
    THEN chunk_and_tokenize(ntokens, proc[p].args.ctx_len)
    ELSE <<>>

\* fit() is invoked at most once, on a trainer built from the resolved
\* configuration, the rank's shard (the full dataset without DDP) and the
\* loaded model; it has been invoked once a process is past the handoff and
\* never in a process that failed earlier.
C10_FitOnce ==
    \A p \in Procs :
        LET s == proc[p]
        IN  /\ s.fit_calls <= 1
            /\ s.fit_calls = 1 =>
                  /\ s.trainer = [built |-> TRUE, cfg |-> s.args,
                                  dataset |-> s.tokenized, model |-> s.model]
                  /\ s.args.parsed /\ s.model.loaded /\ s.chunked
                  /\ s.tokenized = IF s.ddp
                                   THEN Shard(Chunks(p), world_size, s.rank,
                                              contiguous)
                                   ELSE Chunks(p)
            /\ s.pc \in {"in_fit", "done"} => s.fit_calls = 1
            /\ (s.pc = "failed" /\ s.err.at = "fit") => s.fit_calls = 1
            /\ (s.pc = "failed" /\ s.err.at # "fit") => s.fit_calls = 0
            /\ (s.pc \notin {"in_fit", "exit_gate", "done", "failed"})
                  => s.fit_calls = 0

\* After fit() has returned or raised only the with block is left: nothing
\* is printed, called or assigned, and a terminated process does nothing.
C10_NothingAfterFit ==
    \A p \in Procs :
        /\ proc[p].pc \in {"done", "failed"} => proc'[p] = proc[p]
        /\ proc[p].pc = "exit_gate" =>
              [proc'[p] EXCEPT !.pc = proc[p].pc,
                               !.stdout = proc[p].stdout,
                               !.err = proc[p].err] = proc[p]

\* C10: every execution that passes the earlier steps builds the trainer
\* from (RunConfig, shard or full dataset, model) and invokes fit() exactly
\* once; fit() is never invoked after an earlier failure, and nothing
\* follows fit().
C10_HandoffOnce == [] C10_FitOnce /\ [][C10_NothingAfterFit]_vars

\* A distributed process that trained on a shard that is not empty and
\* finished.
C10_Witness ==
    \E p \in Procs :
        /\ proc[p].ddp
        /\ proc[p].pc = "done"
        /\ proc[p].fit_calls = 1
        /\ Len(proc[p].trainer.dataset) > 0

(* ------------------------------ C11 ----------------------------------- *)

\* Process p is between the entry and the exit of the with block.
InGate(p) ==
    proc[p].pc \in {"print_dataset", "print_dtype", "make_trainer", "fit",
                    "in_fit", "exit_gate"}

\* C11: a process without the rank signal runs non-distributed with rank 0
\* and world size 1: no device binding, no join, no world-size query and no
\* sharding; its model is placed on device 0 and its output is never
\* suppressed, whatever the configuration, the hardware and the dataset are.
C11_AbsentSignalIsSingleProcess ==
    \A p \in Procs :
        (~environ[p].present /\ proc[p].pc # "detect") =>
            /\ ~proc[p].ddp /\ proc[p].rank = 0
            /\ NoGroupNoDevice(p)
            /\ proc[p].ws_calls = 0
            /\ proc[p].pc # "shard"
            /\ proc[p].model.loaded => proc[p].model.device = 0
            /\ proc[p].stdout = "console"
            /\ proc[p].discarded = <<>>
            /\ proc[p].pc \in {"make_trainer", "fit", "in_fit"}
                  => Kinds(proc[p].console) = <<"dataset", "dtype">>

\* A process without the rank signal that ran to the end with the
\* quantization flag set.
C11_Witness ==
    \E p \in Procs :
        /\ ~environ[p].present
        /\ proc[p].pc = "done"
        /\ proc[p].args.load_in_8bit
        /\ Len(proc[p].console) = 3

(* ------------------------------ C12 ----------------------------------- *)

\* C12: a rank signal that is the text of a non-negative integer r makes
\* the run distributed with rank r, and that r is the device bound, the
\* device the model is placed on, the index of the shard kept and the value
\* the output gate compares with 0.
C12_RankSignalUsedThroughout ==
    \A p \in Procs : \A r \in 0..MaxProcs :
        (environ[p] = Some(str(r)) /\ proc[p].pc # "detect") =>
            /\ proc[p].ddp /\ proc[p].rank = r
            /\ proc[p].pc # "failed" \/ proc[p].err.at # "detect"
            /\ proc[p].set_device
                  => proc[p].device = [bound |-> TRUE, index |-> r]
            /\ proc[p].model.loaded => proc[p].model.device = r
            /\ (proc[p].pc = "enter_gate" \/ InGate(p) \/ proc[p].pc = "done")
                  => proc[p].tokenized =
                        Shard(Chunks(p), world_size, r, contiguous)
            /\ InGate(p) =>
                  proc[p].stdout = IF r = 0 THEN "console" ELSE "none"

\* A process with rank signal "1" that trained on its shard on device 1.
C12_Witness ==
    \E p \in Procs :
        /\ environ[p] = Some(<<"1">>)
        /\ proc[p].pc = "done"
        /\ proc[p].device.index = 1
        /\ proc[p].model.device = 1
        /\ Len(proc[p].trainer.dataset) = 1

(* ------------------------------ C13 ----------------------------------- *)

RECURSIVE TotalLen(_)
\* The number of rows of a sequence of shards.
TotalLen(shards) ==
    IF Len(shards) = 0 THEN 0
    ELSE Len(shards[1]) + TotalLen(Tail(shards))

\* ceil(n / w)
CeilDiv(n, w) == (n + w - 1) \div w

\* C13: of a dataset of N elements sharded across W ranks (1 <= W <= N),
\* rank 0 keeps exactly ceil(N / W) elements and ranks 1..W-1 together hold
\* the other N - ceil(N / W).
C13_RankZeroHoldsCeil ==
    LET r == shard_run
    IN  (r.active /\ 1 <= r.w /\ r.w <= r.n /\ Len(r.shards) >= 1) =>
          /\ Len(r.shards[1]) = CeilDiv(r.n, r.w)
          /\ Len(r.shards) = r.w
                => TotalLen(Tail(r.shards)) = r.n - CeilDiv(r.n, r.w)

\* Ten elements across four ranks: 3 for rank 0 and 7 for the others.
C13_Witness ==
    /\ shard_run.active
    /\ shard_run.n = 10 /\ shard_run.w = 4
    /\ Len(shard_run.shards) = 4
    /\ Len(shard_run.shards[1]) = 3
    /\ TotalLen(Tail(shard_run.shards)) = 7

(* ------------------------------ C14 ----------------------------------- *)

\* C14: in a run without the rank signal no sharding is applied: the
\* dataset the trainer is built with is the one chunk_and_tokenize
\* returned, the same elements in the same order.
C14_NoShardingWithoutDdp ==
    \A p \in Procs :
        ~environ[p].present =>
            /\ proc[p].ws_calls = 0
            /\ proc[p].err.at \notin {"shard", "get_world_size"}
            /\ proc[p].chunked => proc[p].tokenized = Chunks(p)
            /\ proc[p].trainer.built => proc[p].trainer.dataset = Chunks(p)
            /\ proc[p].fit_calls = 1 => proc[p].trainer.built

\* A run without the rank signal whose trainer got both chunks of the
\* dataset.
C14_Witness ==
    \E p \in Procs :
        /\ ~environ[p].present
        /\ proc[p].fit_calls = 1
        /\ proc[p].trainer.dataset = <<1, 2>>

(* ------------------------------ C15 ----------------------------------- *)

\* C15: the output gate swallows no failure and does not outlive its
\* scope: an exception raised inside the with block (by a print, by the
\* construction of the trainer or by fit()) leaves run() on every rank, and
\* sys.stdout is the console again once the block is left, whether it
\* completed or raised; outside the block output is never suppressed.
C15_GatePropagatesAndRestores ==
    \A p \in Procs :
        LET s == proc[p]
        IN  /\ ~InGate(p) => s.stdout = "console"
            /\ (InGate(p) /\ s.rank # 0) => s.stdout = "none"
            /\ s.pending # NoErr => s.pc \in {"exit_gate", "failed"}
            /\ (s.pc = "failed" /\ s.pending # NoErr) => s.err = s.pending
            /\ s.pc = "done" => s.pending = NoErr /\ s.err = NoErr
            /\ (s.pc = "failed" /\ s.err.at \in {"print", "make_trainer", "fit"})
                  => s.pending = s.err

\* fit() raised on a rank other than 0: the exception left run() and
\* sys.stdout is the console again.
C15_Witness ==
    \E p \in Procs :
        /\ proc[p].rank # 0
        /\ proc[p].pc = "failed"
        /\ proc[p].err = [kind |-> "RuntimeError", at |-> "fit"]
        /\ proc[p].stdout = "console"
        /\ Len(proc[p].discarded) = 2

(* ------------------------------ C16 ----------------------------------- *)

\* The processes whose trainer was built with element e.
TrainedBy(e) ==
    {p \in Procs : \E i \in 1..Len(proc[p].trainer.dataset) :
                      proc[p].trainer.dataset[i] = e}

\* C16: in a distributed run in which every process reaches the trainer
\* handoff, each element of the tokenized dataset is in the dataset of
\* exactly one process's trainer, for every assignment of local ranks a
\* launcher can produce, several nodes included.
C16_EachElementToOneTrainer ==
    (\A p \in Procs : proc[p].ddp /\ proc[p].trainer.built) =>
        \A e \in 1..Len(Chunks(1)) : Cardinality(TrainedBy(e)) = 1

(* ------------------------------ C17 ----------------------------------- *)

\* The processes whose trainer was built with an empty dataset.
EmptyHanded == {p \in Procs : proc[p].trainer.dataset = <<>>}

\* C17: when the world size exceeds the number of elements of the tokenized
\* dataset and every process of the distributed run has built its trainer
\* and invoked fit(), the datasets handed over are pairwise disjoint, cover
\* the tokenized dataset, and exactly W - N processes hold an empty one.
C17_OversizedWorldStillPartitions ==
    (/\ Len(Chunks(1)) < world_size
     /\ \A p \in Procs : proc[p].ddp /\ proc[p].fit_calls = 1) =>
        /\ \A e \in 1..Len(Chunks(1)) : Cardinality(TrainedBy(e)) = 1
        /\ Cardinality(EmptyHanded) = world_size - Len(Chunks(1))

(* ------------------------------ C18 ----------------------------------- *)

\* The steps of run() from the return of the join to the call of fit().
CoreStep(p) ==
    \/ Announce(p)
    \/ Parse(p)
    \/ ChooseDtype(p)
    \/ LoadModel(p)
    \/ LoadDataset(p)
    \/ LoadTokenizer(p)
    \/ Tokenize(p)
    \/ ShardTokenized(p)
    \/ EnterGate(p)
    \/ PrintDataset(p)
    \/ PrintDtype(p)
    \/ MakeTrainer(p)
    \/ FitCall(p)

\* A process that has returned from the join and has not yet called fit().
AfterJoin(p) ==
    /\ proc[p].joined
    /\ proc[p].pc \in {"announce", "parse", "select_dtype", "load_model",
                       "load_dataset", "load_tokenizer", "tokenize", "shard",
                       "enter_gate", "print_dataset", "print_dtype",
                       "make_trainer", "fit"}

\* Whatever the other processes are doing, the next step is possible.
C18_NeverWaits ==
    \A p \in Procs : AfterJoin(p) => ENABLED CoreStep(p)

\* A step after the join touches the record of the stepping process only:
\* no other process's record and no shared state.
C18_StepIsLocal ==
    \A p \in Procs :
        AfterJoin(p) /\ proc'[p] # proc[p] =>
            /\ arrived' = arrived
            /\ \A q \in Procs \ {p} : proc'[q] = proc[q]

\* C18: after the process-group join there is no cross-process
\* synchronization: a process that has returned from the join can always
\* take its next step, up to and including the call of fit(), whatever
\* state the other processes are in, and its steps change nothing another
\* process reads.
C18_NoSyncAfterJoin == [] C18_NeverWaits /\ [][C18_StepIsLocal]_vars

\* One process is inside fit() while another has already terminated on an
\* unresolvable configuration, model or dataset.
C18_Witness ==
    \E p, q \in Procs :
        /\ proc[p].joined
        /\ proc[p].pc = "in_fit"
        /\ proc[q].pc = "failed"
        /\ proc[q].err.at \in {"parse", "load_model", "load_dataset"}

====
